---------------------------- MODULE Spec2Model ----------------------------
(***************************************************************************)
(* Isochrone Map Viewer (src/isochrone-map-viewer/app.py).                 *)
(*                                                                         *)
(* Units.  Edge lengths are metres and are multiples of 5, so that         *)
(* length / WALK_SPEED = length / 1.25 = 4 * length / 5 is a whole number  *)
(* of seconds.  Coordinates are points of a small integer grid: x is the   *)
(* longitude and y the latitude.                                           *)
(***************************************************************************)
EXTENDS Integers, Sequences, FiniteSets, TLC

VARIABLES
    G,                  \* main's local G: the road network of the request
    mode,               \* network_type: "walk" or "drive"
    current,            \* [lat, lon]: current_lat, current_lon
    trip_time_seconds,  \* the budget of the last calculate_isochrone call
    subgraph,           \* the nodes of the ego graph of that call
    isochrone,          \* what that call returned
    pc,                 \* position in the pipeline
    polygon,            \* search_poi_with_location's polygon argument
    point,              \* [lat, lon] of the last is_point_in_polygon call
    inside,             \* what that call returned
    page,               \* provider pages requested so far
    handed,             \* the items as the provider returned them
    records,            \* the same item objects as they are now
    all_results,        \* all_results: references to item objects
    seen_titles,        \* seen_titles
    session_state,      \* st.session_state
    selected_times,     \* the multiselect's value in this run, in selection order
    dist,               \* main's local dist
    polygons,           \* main's local polygons: <<time_min, polygon>> pairs in
                        \* insertion order
    band,               \* the place in selected_times of the next band
    band_map_before,    \* the stored band map when the request began
    message,            \* the last st.success / st.warning / st.error
    drawn,              \* the bands create_map drew, in drawing order
    trace,              \* the stages this run has finished, in order
    cache,              \* get_graph's st.cache_data entries
    clock,              \* seconds on the cache's timer
    sessions,           \* each session thread's place in a get_graph call
    compute_value_lock, \* the holder of each key's compute lock
    calls,              \* per key, the last two calls of the provider
    response,           \* the POI provider's answer to the last request
    returned_items,     \* what search_naver_local returned for it
    notice,             \* the st.warning / st.error of that call
    throttled_page      \* the page whose request was first answered 429

isoVars == <<G, mode, current, trip_time_seconds, subgraph, isochrone>>

poiVars ==
    <<polygon, point, inside, page, handed, records, all_results, seen_titles>>

appVars ==
    <<session_state, selected_times, dist, polygons, band, band_map_before,
      message, drawn, trace>>

cacheVars == <<clock, sessions, compute_value_lock, calls>>

searchVars == <<response, returned_items, notice, throttled_page>>

vars == <<isoVars, pc, poiVars, appVars, cache, cacheVars, searchVars>>

----------------------------------------------------------------------------
(* Bounds of the model *)

MaxEdges == 3           \* edges of an enumerated network
MaxLenUnits == 1        \* edge lengths are 0, 5, ..., 5 * MaxLenUnits metres
MaxBudgetSteps == 4     \* budgets are 0, 2, ..., 2 * MaxBudgetSteps seconds
MaxCoord == 3           \* POI coordinates are 0..MaxCoord degrees
MaxItems == 2           \* items the provider returns during one search
MaxSelected == 2        \* time budgets selected for one request
MaxMinutes == 15        \* the user selects options of at most MaxMinutes minutes
MaxTicks == 2           \* ticks of the cache's timer
NumSessions == 2        \* session threads that call get_graph
MaxEvents == 3          \* user events of one session, a second apart

NodeIds == 1..3

Lengths == {5 * k : k \in 0..MaxLenUnits}

Budgets == {2 * k : k \in 0..MaxBudgetSteps}

----------------------------------------------------------------------------
(* Values *)

None == [type |-> "None", coords |-> <<>>]

NetworkTypes == {"walk", "drive"}

\* a network as the provider returns it: no edge has a travel_time yet
Network(coords, E) == [coords |-> coords, edges |-> E, travel_time |-> <<>>]

\* the speed osmnx imputes to an edge, km/h (18 km/h = 5 m/s)
SpeedKph(e) == 18

Min(S) == CHOOSE x \in S : \A y \in S : x <= y

Max(S) == CHOOSE x \in S : \A y \in S : x >= y

SeqRange(q) == {q[i] : i \in DOMAIN q}

----------------------------------------------------------------------------
(* add_travel_time *)

WalkTravelTimeMutTimes(e) == (5 * e.length) \div 4

\* data['length'] / WALK_SPEED, WALK_SPEED = 1.25
WalkTravelTime(e) == (4 * e.length) \div 5

DriveTravelTime(e) == (36 * e.length) \div (10 * SpeedKph(e))

add_travel_time(g, m) ==
    [g EXCEPT !.travel_time =
        [e \in g.edges |-> IF m = "walk" THEN WalkTravelTime(e)
                                         ELSE DriveTravelTime(e)]]

----------------------------------------------------------------------------
(* ox.nearest_nodes: the node nearest to (X, Y); the lowest id among ties *)

SqDist(p, q) == (p[1] - q[1]) * (p[1] - q[1]) + (p[2] - q[2]) * (p[2] - q[2])

nearest_nodes(g, X, Y) ==
    LET nodes == DOMAIN g.coords
        best == Min({SqDist(g.coords[n], <<X, Y>>) : n \in nodes})
    IN  Min({n \in nodes : SqDist(g.coords[n], <<X, Y>>) = best})

----------------------------------------------------------------------------
(* nx.ego_graph(G, n, radius, distance): the nodes single_source_dijkstra   *)
(* settles with cutoff = radius.  G is a MultiDiGraph: the weight of (u, v) *)
(* is the least weight of its parallel edges, and an edge without the       *)
(* attribute weighs 1.                                                      *)

EdgeWeight(g, e) == IF e \in DOMAIN g.travel_time THEN g.travel_time[e] ELSE 1

Successors(g, v) == {e.v : e \in {d \in g.edges : d.u = v}}

WeightMutMax(g, u, v) ==
    Max({EdgeWeight(g, e) : e \in {d \in g.edges : d.u = u /\ d.v = v}})

Weight(g, u, v) ==
    Min({EdgeWeight(g, e) : e \in {d \in g.edges : d.u = u /\ d.v = v}})

\* heappop: the least (distance, node) pair of the fringe
HeapTop(fringe) ==
    CHOOSE t \in fringe : \A s \in fringe :
        t[1] < s[1] \/ (t[1] = s[1] /\ t[2] <= s[2])

WithinCutoffMutEq(vu_dist, cutoff) == vu_dist # cutoff

WithinCutoffMutOpen(vu_dist, cutoff) == vu_dist < cutoff

WithinCutoff(vu_dist, cutoff) == ~(vu_dist > cutoff)

\* the neighbours of v that the relaxation step pushes on the fringe
Relaxed(g, v, d, cutoff, settled, seen) ==
    {u \in Successors(g, v) :
        /\ WithinCutoff(d + Weight(g, v, u), cutoff)
        /\ u \notin DOMAIN settled
        /\ (u \notin DOMAIN seen \/ d + Weight(g, v, u) < seen[u])}

RECURSIVE Dijkstra(_, _, _, _, _)
Dijkstra(g, cutoff, settled, seen, fringe) ==
    IF fringe = {} THEN settled
    ELSE LET top == HeapTop(fringe)
             d == top[1]
             v == top[2]
         IN  IF v \in DOMAIN settled
             THEN Dijkstra(g, cutoff, settled, seen, fringe \ {top})
             ELSE LET dist2 == [n \in DOMAIN settled \cup {v} |->
                                   IF n = v THEN d ELSE settled[n]]
                      push == Relaxed(g, v, d, cutoff, dist2, seen)
                      seen2 == [n \in DOMAIN seen \cup push |->
                                   IF n \in push THEN d + Weight(g, v, n)
                                                 ELSE seen[n]]
                  IN  Dijkstra(g, cutoff, dist2, seen2,
                               (fringe \ {top}) \cup
                                   {<<d + Weight(g, v, n), n>> : n \in push})

ego_graph(g, n, radius) ==
    DOMAIN Dijkstra(g, radius, <<>>, [x \in {n} |-> 0], {<<0, n>>})

----------------------------------------------------------------------------
(* MultiPoint(...).convex_hull: a Point for one distinct coordinate, a      *)
(* LineString for two or for collinear ones, otherwise a Polygon whose      *)
(* exterior is the closed ring of the extreme points, counter-clockwise     *)
(* from the least one.                                                      *)

Cross(a, b, c) ==
    (b[1] - a[1]) * (c[2] - a[2]) - (b[2] - a[2]) * (c[1] - a[1])

PointLess(p, q) == p[1] < q[1] \/ (p[1] = q[1] /\ p[2] < q[2])

LeastPoint(S) == CHOOSE p \in S : \A q \in S \ {p} : PointLess(p, q)

GreatestPoint(S) == CHOOSE p \in S : \A q \in S \ {p} : PointLess(q, p)

Collinear(S) == \A a, b, c \in S : Cross(a, b, c) = 0

\* p lies on the closed segment from a to b
OnSegment(a, b, p) ==
    /\ Cross(a, b, p) = 0
    /\ (p[1] - a[1]) * (p[1] - b[1]) <= 0
    /\ (p[2] - a[2]) * (p[2] - b[2]) <= 0

\* p lies in the closed triangle a, b, c
InTriangle(a, b, c, p) ==
    /\ Cross(a, b, c) # 0
    /\ \/ Cross(a, b, p) >= 0 /\ Cross(b, c, p) >= 0 /\ Cross(c, a, p) >= 0
       \/ Cross(a, b, p) <= 0 /\ Cross(b, c, p) <= 0 /\ Cross(c, a, p) <= 0

\* the points of S that are not in the hull of the others
ExtremePoints(S) ==
    {p \in S :
        /\ \A a, b \in S \ {p} : ~OnSegment(a, b, p)
        /\ \A a, b, c \in S \ {p} : ~InTriangle(a, b, c, p)}

\* the hull vertex that follows p counter-clockwise
NextVertex(V, p) ==
    CHOOSE q \in V \ {p} : \A r \in V \ {p, q} : Cross(p, q, r) > 0

RECURSIVE RingFrom(_, _, _)
RingFrom(V, first, p) ==
    LET q == NextVertex(V, p)
    IN  IF q = first THEN <<p, first>> ELSE <<p>> \o RingFrom(V, first, q)

convex_hull(S) ==
    IF Cardinality(S) = 1
    THEN [type |-> "Point", coords |-> <<LeastPoint(S)>>]
    ELSE IF Collinear(S)
    THEN [type |-> "LineString",
          coords |-> <<LeastPoint(S), GreatestPoint(S)>>]
    ELSE LET V == ExtremePoints(S)
         IN  [type |-> "Polygon",
              coords |-> RingFrom(V, LeastPoint(V), LeastPoint(V))]

----------------------------------------------------------------------------
(* calculate_isochrone *)

TooFewNodesMut2(nodes) == Cardinality(nodes) < 2

TooFewNodes(nodes) == Cardinality(nodes) < 3

center_node(g, lat, lon) == nearest_nodes(g, lon, lat)

\* [subgraph, result]: the nodes of the ego graph and the value returned
calculate_isochrone(g, lat, lon, trip) ==
    LET sub == ego_graph(g, center_node(g, lat, lon), trip)
    IN  [subgraph |-> sub,
         result |-> IF TooFewNodes(sub)
                    THEN None
                    ELSE convex_hull({g.coords[n] : n \in sub})]

----------------------------------------------------------------------------
(* convert_naver_coords: int(mapx) / 10000000, int(mapy) / 10000000, or     *)
(* (None, None) when int() raises.  A coordinate string is a sequence of    *)
(* characters.                                                              *)

CoordScale == 10000000

Digits == <<"0", "1", "2", "3", "4", "5", "6", "7", "8", "9">>

IsDigit(c) == \E i \in DOMAIN Digits : Digits[i] = c

DigitValue(c) == (CHOOSE i \in DOMAIN Digits : Digits[i] = c) - 1

IsIntString(str) == Len(str) > 0 /\ \A i \in DOMAIN str : IsDigit(str[i])

RECURSIVE ParseInt(_)
ParseInt(str) ==
    IF Len(str) = 0 THEN 0
    ELSE 10 * ParseInt(SubSeq(str, 1, Len(str) - 1)) + DigitValue(str[Len(str)])

NoCoords == [ok |-> FALSE, lat |-> 0, lon |-> 0]

convert_naver_coords(mapx, mapy) ==
    IF IsIntString(mapx) /\ IsIntString(mapy)
    THEN [ok |-> TRUE,
          lat |-> ParseInt(mapy) \div CoordScale,
          lon |-> ParseInt(mapx) \div CoordScale]
    ELSE NoCoords

\* "if lat and lon": neither None nor zero
Truthy(c) == c.ok /\ c.lat # 0 /\ c.lon # 0

----------------------------------------------------------------------------
(* is_point_in_polygon.  polygon.contains(point): the point lies in the     *)
(* interior of the geometry: strictly left of every edge of a               *)
(* counter-clockwise ring, strictly between the ends of a line, on a point. *)

ContainsMutCovers(geom, p) ==
    CASE geom.type = "Polygon" ->
            \A i \in 1..(Len(geom.coords) - 1) :
                Cross(geom.coords[i], geom.coords[i + 1], p) >= 0
      [] geom.type = "LineString" -> OnSegment(geom.coords[1], geom.coords[2], p)
      [] OTHER -> geom.coords[1] = p

Contains(geom, p) ==
    CASE geom.type = "Polygon" ->
            \A i \in 1..(Len(geom.coords) - 1) :
                Cross(geom.coords[i], geom.coords[i + 1], p) > 0
      [] geom.type = "LineString" ->
            /\ OnSegment(geom.coords[1], geom.coords[2], p)
            /\ p # geom.coords[1]
            /\ p # geom.coords[2]
      [] OTHER -> geom.coords[1] = p

is_point_in_polygon(lat, lon, poly) ==
    IF poly = None THEN TRUE ELSE Contains(poly, <<lon, lat>>)

----------------------------------------------------------------------------
(* search_naver_local: requests.get answers with a status code and a body,  *)
(* or raises.  Status 200 returns the items of the body; 429 and every      *)
(* other status show a warning, an exception shows an error, and all three  *)
(* fall through to "return []".                                             *)

NoNotice == [level |-> "", text |-> "", code |-> 0]

NoResponse == [raised |-> FALSE, status_code |-> 0, items |-> <<>>]

search_naver_local(r) ==
    IF r.raised
    THEN [result |-> <<>>,
          notice |-> [level |-> "error", text |-> "search error", code |-> 0]]
    ELSE IF r.status_code = 200
    THEN [result |-> r.items, notice |-> NoNotice]
    ELSE IF r.status_code = 429
    THEN [result |-> <<>>,
          notice |-> [level |-> "warning", text |-> "rate limit", code |-> 0]]
    ELSE [result |-> <<>>,
          notice |-> [level |-> "warning", text |-> "API error",
                      code |-> r.status_code]]

SearchIdle ==
    /\ response = NoResponse
    /\ returned_items = <<>>
    /\ notice = NoNotice
    /\ throttled_page = 0

----------------------------------------------------------------------------
(* search_poi_with_location: two queries of four pages each; every item of  *)
(* a page is cleaned of its <b> tags, dropped when its title was seen,      *)
(* converted, filtered, and written to and appended.                        *)

PageStarts == <<1, 6, 11, 16>>

NumQueries == 2

NumPages == NumQueries * Len(PageStarts)

Category == "cafe"

\* title.replace('<b>', '').replace('</b>', ''): a title is a sequence of
\* tags and words
CleanTitle(title) ==
    LET NotTag(tok) == tok # "<b>" /\ tok # "</b>"
    IN  SelectSeq(title, NotTag)

Augmented(item, c) ==
    [title |-> item.title, mapx |-> item.mapx, mapy |-> item.mapy,
     lat |-> c.lat, lon |-> c.lon,
     category |-> Category, title_clean |-> CleanTitle(item.title)]

\* one pass of the body of "for item in items"; st = [records, all_results,
\* seen_titles], ref = the place of the item object in records
ProcessItem(st, ref, poly) ==
    LET item == st.records[ref]
        title == CleanTitle(item.title)
        c == convert_naver_coords(item.mapx, item.mapy)
    IN  IF title \in st.seen_titles THEN st
        ELSE IF Truthy(c) /\ is_point_in_polygon(c.lat, c.lon, poly)
        THEN [records |-> [st.records EXCEPT ![ref] = Augmented(item, c)],
              all_results |-> Append(st.all_results, ref),
              seen_titles |-> st.seen_titles \cup {title}]
        ELSE [st EXCEPT !.seen_titles = st.seen_titles \cup {title}]

RECURSIVE ProcessItems(_, _, _, _)
ProcessItems(st, ref, last, poly) ==
    IF ref > last THEN st
    ELSE ProcessItems(ProcessItem(st, ref, poly), ref + 1, last, poly)

\* the list search_poi_with_location returns
ReturnedList == [i \in DOMAIN all_results |-> records[all_results[i]]]

----------------------------------------------------------------------------
(* Constants of the app and st.session_state *)

TIME_OPTIONS == <<5, 10, 15, 20, 30, 60>>

RADIUS_BY_TIME ==
    [t \in {5, 10, 15, 20, 30, 60} |->
        CASE t = 5  -> [walk |-> 1000, drive |-> 4000]
          [] t = 10 -> [walk |-> 1500, drive |-> 7000]
          [] t = 15 -> [walk |-> 2000, drive |-> 10000]
          [] t = 20 -> [walk |-> 2500, drive |-> 12000]
          [] t = 30 -> [walk |-> 3000, drive |-> 18000]
          [] OTHER  -> [walk |-> 6000, drive |-> 35000]]

TTL == 3600

\* the default coordinate 37.5665, 126.9780 is the origin of the grid
DefaultPoint == [lat |-> 0, lon |-> 0]

init_session_state ==
    [clicked_lat |-> DefaultPoint.lat,
     clicked_lon |-> DefaultPoint.lon,
     isochrone_polygons |-> <<>>,
     poi_data |-> <<>>,
     address_info |-> ""]

\* the keys of a dict, in iteration order
Keys(d) == [i \in DOMAIN d |-> d[i][1]]

\* sorted(keys, reverse=True)
RECURSIVE SortedReverse(_)
SortedReverse(S) ==
    IF S = {} THEN <<>> ELSE <<Max(S)>> \o SortedReverse(S \ {Max(S)})

\* d[k]
Lookup(d, k) == d[CHOOSE i \in DOMAIN d : d[i][1] = k][2]

\* create_map: the bands it adds to the map, in order
create_map(isochrone_polygons) ==
    LET NotNone(t) == Lookup(isochrone_polygons, t) # None
    IN  SelectSeq(SortedReverse(SeqRange(Keys(isochrone_polygons))), NotNone)

----------------------------------------------------------------------------
(* get_graph: ox.graph_from_point behind st.cache_data(ttl=3600).  The      *)
(* provider's road network around the default coordinate: a chain of four   *)
(* nodes 375 m apart; a fetch returns the nodes within dist of the centre.  *)

WorldCoords == <<<<0, 0>>, <<1, 0>>, <<1, 1>>, <<0, 2>>>>

WorldOffset(n) == 375 * (n - 1)

graph_from_point(lat, lon, d, network_type) ==
    LET nodes == {n \in DOMAIN WorldCoords : WorldOffset(n) <= d}
    IN  Network([n \in nodes |-> <<lon + WorldCoords[n][1],
                                   lat + WorldCoords[n][2]>>],
                {[u |-> n, v |-> n + 1, length |-> 375] :
                    n \in {m \in nodes : m + 1 \in nodes}})

CacheKey(lat, lon, d, network_type) == <<lat, lon, d, network_type>>

\* the entry of a key is in the cache and younger than the time to live
CacheLive(c, key, now) ==
    key \in DOMAIN c /\ now - c[key].stored < TTL

CacheWrite(c, key, value, now) ==
    [k \in DOMAIN c \cup {key} |->
        IF k = key THEN [value |-> value, stored |-> now] ELSE c[k]]

\* the keys the sessions ask for: one coordinate and mode, two radii
RequestKeys ==
    {CacheKey(DefaultPoint.lat, DefaultPoint.lon,
              RADIUS_BY_TIME[TIME_OPTIONS[i]]["walk"], "walk") : i \in 1..2}

Sessions == 1..NumSessions

NoKey == <<>>

Unlocked == 0

CacheIdle ==
    /\ cache = <<>>
    /\ clock = 0
    /\ sessions = [t \in Sessions |-> [pc |-> "idle", key |-> NoKey]]
    /\ compute_value_lock = [key \in RequestKeys |-> Unlocked]
    /\ calls = [key \in RequestKeys |-> <<>>]

----------------------------------------------------------------------------
(* main: one script run per user event *)

UserTimes == {TIME_OPTIONS[i] : i \in {j \in DOMAIN TIME_OPTIONS :
                                          TIME_OPTIONS[j] <= MaxMinutes}}

IsInjective(q) == \A i, j \in DOMAIN q : q[i] = q[j] => i = j

\* what the multiselect can hold: distinct options in selection order
Selections ==
    {q \in UNION {[1..n -> UserTimes] : n \in 0..MaxSelected} : IsInjective(q)}

NoNetwork == Network(<<>>, {})

PoiIdle ==
    /\ polygon = None
    /\ point = [lat |-> 0, lon |-> 0]
    /\ inside = FALSE
    /\ page = 0
    /\ handed = <<>>
    /\ records = <<>>
    /\ all_results = <<>>
    /\ seen_titles = {}

AppIdle ==
    /\ session_state = init_session_state
    /\ selected_times = <<>>
    /\ dist = 0
    /\ polygons = <<>>
    /\ band = 1
    /\ band_map_before = <<>>
    /\ message = ""
    /\ drawn = <<>>
    /\ trace = <<>>

Init ==
    /\ AppIdle
    /\ G = NoNetwork
    /\ mode = "walk"
    /\ current = DefaultPoint
    /\ trip_time_seconds = 0
    /\ subgraph = {}
    /\ isochrone = None
    /\ pc = "idle"
    /\ CacheIdle
    /\ SearchIdle
    /\ PoiIdle

\* the transport radio is changed; the rerun draws the map again
SelectTransport ==
    /\ pc = "idle"
    /\ \E m \in NetworkTypes \ {mode} : mode' = m
    /\ drawn' = create_map(session_state.isochrone_polygons)
    /\ UNCHANGED <<G, current, trip_time_seconds, subgraph, isochrone, pc>>
    /\ UNCHANGED <<session_state, selected_times, dist, polygons, band,
                   band_map_before, message, trace>>
    /\ UNCHANGED <<poiVars, cache, cacheVars, searchVars>>

max_timeMutFirst(sel) == sel[1]

\* max(selected_times)
max_time(sel) == Max(SeqRange(sel))

\* a stage finished: what it was and what it was given
Stage(op, arg) == [op |-> op, arg |-> arg]

\* the button is pressed with the times selected: lines 456-460
PressIsochrone ==
    /\ pc = "idle"
    /\ \E sel \in Selections :
        /\ selected_times' = sel
        /\ IF sel = <<>>
           THEN /\ pc' = "render"
                /\ UNCHANGED dist
           ELSE /\ pc' = "get_graph"
                /\ dist' = RADIUS_BY_TIME[max_time(sel)][mode]
    /\ UNCHANGED <<message, trace>>
    /\ band_map_before' = session_state.isochrone_polygons
    /\ UNCHANGED <<isoVars, session_state, polygons, band, drawn>>
    /\ UNCHANGED <<poiVars, cache, cacheVars, searchVars>>

\* the request ends in the except branch: st.error
Raise ==
    /\ message' = "error"
    /\ pc' = "render"
    /\ UNCHANGED trace

\* line 464
GetGraph ==
    /\ pc = "get_graph"
    /\ LET key == CacheKey(current.lat, current.lon, dist, mode)
       IN  \/ /\ CacheLive(cache, key, clock)
              /\ G' = cache[key].value
              /\ pc' = "annotate"
              /\ trace' = Append(trace, Stage("get_graph", dist))
              /\ UNCHANGED <<cache, message>>
           \/ /\ ~CacheLive(cache, key, clock)
              /\ G' = graph_from_point(current.lat, current.lon, dist, mode)
              /\ cache' = CacheWrite(cache, key, G', clock)
              /\ pc' = "annotate"
              /\ trace' = Append(trace, Stage("get_graph", dist))
              /\ UNCHANGED message
           \/ /\ ~CacheLive(cache, key, clock)
              /\ Raise
              /\ UNCHANGED <<G, cache>>
    /\ UNCHANGED <<mode, current, trip_time_seconds, subgraph, isochrone>>
    /\ UNCHANGED <<session_state, selected_times, dist, polygons, band,
                   band_map_before, drawn>>
    /\ UNCHANGED <<poiVars, cacheVars, searchVars>>

\* line 467
AddTravelTime ==
    /\ pc = "annotate"
    /\ \/ /\ G' = add_travel_time(G, mode)
          /\ pc' = "band"
          /\ trace' = Append(trace, Stage("add_travel_time", 0))
          /\ UNCHANGED message
       \/ /\ Raise
          /\ UNCHANGED G
    /\ UNCHANGED <<mode, current, trip_time_seconds, subgraph, isochrone>>
    /\ UNCHANGED <<session_state, selected_times, dist, polygons, band,
                   band_map_before, drawn>>
    /\ UNCHANGED <<poiVars, cache, cacheVars, searchVars>>

BandMapInLoopMutStore(stored, local) == local

\* st.session_state.isochrone_polygons while the loop runs: not assigned
BandMapInLoop(stored, local) == stored

\* one pass of "for time_min in selected_times": lines 471-475
Band ==
    /\ pc = "band"
    /\ band <= Len(selected_times)
    /\ \/ LET time_min == selected_times[band]
          IN  /\ trip_time_seconds' = time_min * 60
              /\ \E r \in {calculate_isochrone(G, current.lat, current.lon,
                                                time_min * 60)} :
                    /\ subgraph' = r.subgraph
                    /\ isochrone' = r.result
              /\ polygons' = IF isochrone' # None
                             THEN Append(polygons, <<time_min, isochrone'>>)
                             ELSE polygons
              /\ session_state' =
                    [session_state EXCEPT !.isochrone_polygons =
                        BandMapInLoop(session_state.isochrone_polygons,
                                      polygons')]
              /\ band' = band + 1
              /\ trace' = Append(trace, Stage("calculate_isochrone", time_min))
              /\ UNCHANGED <<pc, message>>
       \/ /\ Raise
          /\ UNCHANGED <<trip_time_seconds, subgraph, isochrone, polygons,
                         session_state, band>>
    /\ UNCHANGED <<G, mode, current>>
    /\ UNCHANGED <<selected_times, dist, band_map_before, drawn>>
    /\ UNCHANGED <<poiVars, cache, cacheVars, searchVars>>

\* what reverse_geocode can return: the address, or nothing when the
\* geocoder fails
reverse_geocode(lat, lon) == {"", "Seoul"}

\* lines 476-489: the band map is stored, the address looked up, the
\* outcome reported
Store ==
    /\ pc = "band"
    /\ band > Len(selected_times)
    /\ \E addr \in reverse_geocode(current.lat, current.lon) :
        session_state' =
            [session_state EXCEPT
                !.isochrone_polygons = polygons,
                !.address_info = IF addr # "" THEN addr ELSE @]
    /\ message' = IF polygons # <<>> THEN "success" ELSE "warning"
    /\ pc' = "render"
    /\ UNCHANGED isoVars
    /\ UNCHANGED <<selected_times, dist, polygons, band, band_map_before, drawn,
                   trace>>
    /\ UNCHANGED <<poiVars, cache, cacheVars, searchVars>>

\* lines 534-538: create_map; the script run ends, its locals are gone and
\* the next run starts from an empty page
Render ==
    /\ pc = "render"
    /\ drawn' = create_map(session_state.isochrone_polygons)
    /\ pc' = "idle"
    /\ G' = NoNetwork
    /\ trip_time_seconds' = 0
    /\ subgraph' = {}
    /\ isochrone' = None
    /\ selected_times' = <<>>
    /\ dist' = 0
    /\ polygons' = <<>>
    /\ band' = 1
    /\ band_map_before' = <<>>
    /\ message' = ""
    /\ trace' = <<>>
    /\ UNCHANGED <<mode, current, session_state>>
    /\ UNCHANGED <<poiVars, cache, cacheVars, searchVars>>

Next ==
    \/ SelectTransport
    \/ PressIsochrone
    \/ GetGraph
    \/ AddTravelTime
    \/ Band
    \/ Store
    \/ Render

Spec == Init /\ [][Next]_vars

----------------------------------------------------------------------------
(* The points, polygons and provider items the filter claims are checked on *)

Coords == 0..MaxCoord

\* the decimal string of k * 10000000 (k a digit)
MapString(k) ==
    IF k = 0 THEN <<"0">>
    ELSE <<Digits[k + 1], "0", "0", "0", "0", "0", "0", "0">>

CoordStrings == {MapString(k) : k \in {0, 1, 2}} \cup {<<"N", "a", "N">>}

Titles == {<<"A">>, <<"<b>", "A", "</b>">>, <<"B">>}

Items ==
    {[title |-> t, mapx |-> x, mapy |-> <<"1", "0", "0", "0", "0", "0", "0", "0">>] :
        t \in Titles, x \in CoordStrings}

Pages == {q \in UNION {[1..n -> Items] : n \in 0..MaxItems} : TRUE}

FilterPolygons ==
    { None,
      convex_hull({<<0, 0>>, <<3, 0>>, <<3, 2>>, <<0, 2>>}),
      convex_hull({<<0, 0>>, <<2, 0>>, <<0, 2>>, <<1, 1>>}),
      convex_hull({<<0, 1>>, <<1, 1>>, <<2, 1>>}) }

InitFilter ==
    /\ polygon \in FilterPolygons
    /\ point = [lat |-> 0, lon |-> 0]
    /\ inside = FALSE
    /\ page = 0
    /\ handed = <<>>
    /\ records = <<>>
    /\ all_results = <<>>
    /\ seen_titles = {}
    /\ pc = "search"
    /\ G = Network(<<>>, {})
    /\ mode = "walk"
    /\ current = [lat |-> 0, lon |-> 0]
    /\ trip_time_seconds = 0
    /\ subgraph = {}
    /\ isochrone = None
    /\ AppIdle
    /\ CacheIdle
    /\ SearchIdle

\* a call of is_point_in_polygon
CheckPoint ==
    /\ pc = "search"
    /\ page = 0
    /\ \E lat \in Coords, lon \in Coords :
        /\ point' = [lat |-> lat, lon |-> lon]
        /\ inside' = is_point_in_polygon(lat, lon, polygon)
    /\ pc' = "checked"
    /\ UNCHANGED <<polygon, page, handed, records, all_results, seen_titles>>
    /\ UNCHANGED <<isoVars, appVars, cache, cacheVars, searchVars>>

\* one page of one query: search_naver_local returns items, the loop body
\* handles each
SearchPage ==
    /\ pc = "search"
    /\ page < NumPages
    /\ \E items \in Pages :
        /\ Len(handed) + Len(items) <= MaxItems
        /\ LET st == ProcessItems(
                        [records |-> records \o items,
                         all_results |-> all_results,
                         seen_titles |-> seen_titles],
                        Len(records) + 1, Len(records) + Len(items), polygon)
           IN  /\ handed' = handed \o items
               /\ records' = st.records
               /\ all_results' = st.all_results
               /\ seen_titles' = st.seen_titles
    /\ page' = page + 1
    /\ UNCHANGED <<pc, polygon, point, inside>>
    /\ UNCHANGED <<isoVars, appVars, cache, cacheVars, searchVars>>

\* return all_results
SearchReturn ==
    /\ pc = "search"
    /\ page = NumPages
    /\ pc' = "returned"
    /\ UNCHANGED poiVars
    /\ UNCHANGED <<isoVars, appVars, cache, cacheVars, searchVars>>

NextFilter == CheckPoint \/ SearchPage \/ SearchReturn

SpecFilter == InitFilter /\ [][NextFilter]_vars

----------------------------------------------------------------------------
(* search_poi_with_location with a provider that may answer any request     *)
(* with items, with a status other than 200, or not at all.                 *)

StatusCodes == {200, 401, 429, 500}

SearchItems ==
    {[title |-> t, mapx |-> MapString(1), mapy |-> MapString(1)] :
        t \in {<<"A">>, <<"B">>}}

SearchPages == UNION {[1..n -> SearchItems] : n \in 0..MaxItems}

Responses ==
    {[raised |-> TRUE, status_code |-> 0, items |-> <<>>]} \cup
    {[raised |-> FALSE, status_code |-> c, items |-> <<>>] :
        c \in StatusCodes} \cup
    {[raised |-> FALSE, status_code |-> 200, items |-> q] : q \in SearchPages}

IsThrottled(r) == ~r.raised /\ r.status_code = 429

InitSearch ==
    /\ polygon \in {None, convex_hull({<<0, 0>>, <<3, 0>>, <<3, 2>>, <<0, 2>>})}
    /\ point = [lat |-> 0, lon |-> 0]
    /\ inside = FALSE
    /\ page = 0
    /\ handed = <<>>
    /\ records = <<>>
    /\ all_results = <<>>
    /\ seen_titles = {}
    /\ pc = "search"
    /\ G = Network(<<>>, {})
    /\ mode = "walk"
    /\ current = [lat |-> 0, lon |-> 0]
    /\ trip_time_seconds = 0
    /\ subgraph = {}
    /\ isochrone = None
    /\ AppIdle
    /\ CacheIdle
    /\ SearchIdle

\* one pass of "for start in [1, 6, 11, 16]": lines 240-266.  The request is
\* made whatever the earlier answers were, and time.sleep(0.1) follows
SearchRequest ==
    /\ pc = "search"
    /\ page < NumPages
    /\ \E r \in Responses :
        /\ Len(handed) + Len(r.items) <= MaxItems
        /\ response' = r
        /\ returned_items' = search_naver_local(r).result
        /\ notice' = search_naver_local(r).notice
        /\ throttled_page' = IF throttled_page = 0 /\ IsThrottled(r)
                             THEN page + 1 ELSE throttled_page
        /\ LET st == ProcessItems(
                        [records |-> records \o returned_items',
                         all_results |-> all_results,
                         seen_titles |-> seen_titles],
                        Len(records) + 1,
                        Len(records) + Len(returned_items'), polygon)
           IN  /\ handed' = handed \o returned_items'
               /\ records' = st.records
               /\ all_results' = st.all_results
               /\ seen_titles' = st.seen_titles
    /\ page' = page + 1
    /\ UNCHANGED <<pc, polygon, point, inside>>
    /\ UNCHANGED <<isoVars, appVars, cache, cacheVars>>

\* return all_results
SearchDone ==
    /\ pc = "search"
    /\ page = NumPages
    /\ pc' = "returned"
    /\ UNCHANGED <<poiVars, searchVars>>
    /\ UNCHANGED <<isoVars, appVars, cache, cacheVars>>

NextSearch == SearchRequest \/ SearchDone

SpecSearch == InitSearch /\ [][NextSearch]_vars

----------------------------------------------------------------------------
(* A session of user events: coordinate input, map click, transport,        *)
(* isochrone generation, POI search.  Each event starts one script run,     *)
(* taken here as one step, a second after the one before.                   *)

SessionPoints == {DefaultPoint, [lat |-> 1, lon |-> 1]}

\* lines 506-510
largest_polygon(isochrone_polygons) ==
    IF isochrone_polygons = <<>> THEN None
    ELSE Lookup(isochrone_polygons, Max(SeqRange(Keys(isochrone_polygons))))

\* lines 470-475: the dict the loop over sel[i..] adds to acc
RECURSIVE BandsOf(_, _, _, _, _, _)
BandsOf(g, lat, lon, sel, i, acc) ==
    IF i > Len(sel) THEN acc
    ELSE LET iso == calculate_isochrone(g, lat, lon, sel[i] * 60).result
         IN  BandsOf(g, lat, lon, sel, i + 1,
                     IF iso # None THEN Append(acc, <<sel[i], iso>>) ELSE acc)

\* lines 464-475 for a network n that get_graph returned
BandMap(n, lat, lon, m, sel) ==
    BandsOf(add_travel_time(n, m), lat, lon, sel, 1, <<>>)

RunLocals ==
    <<G, trip_time_seconds, subgraph, isochrone, selected_times, dist,
      polygons, band, band_map_before, message, trace>>

\* the event's second on the timer
Elapse ==
    /\ clock < MaxEvents
    /\ clock' = clock + 1
    /\ UNCHANGED <<sessions, compute_value_lock, calls>>

\* a number_input is edited: current_lat, current_lon follow the widgets
CoordinateInput ==
    /\ pc = "idle"
    /\ Elapse
    /\ \E p \in SessionPoints \ {current} : current' = p
    /\ drawn' = create_map(session_state.isochrone_polygons)
    /\ UNCHANGED <<pc, mode, session_state, cache>>
    /\ UNCHANGED <<RunLocals, poiVars, searchVars>>

\* lines 549-559: a click away from the clicked point is stored, the address
\* reset, and the rerun builds the number_inputs anew on the clicked point
MapClick ==
    /\ pc = "idle"
    /\ Elapse
    /\ \E p \in SessionPoints :
        /\ p.lat # session_state.clicked_lat \/ p.lon # session_state.clicked_lon
        /\ session_state' = [session_state EXCEPT !.clicked_lat = p.lat,
                                                  !.clicked_lon = p.lon,
                                                  !.address_info = ""]
        /\ current' = p
    /\ drawn' = create_map(session_state.isochrone_polygons)
    /\ UNCHANGED <<pc, mode, cache>>
    /\ UNCHANGED <<RunLocals, poiVars, searchVars>>

\* the transport radio is changed
ChooseTransport ==
    /\ pc = "idle"
    /\ Elapse
    /\ \E m \in NetworkTypes \ {mode} : mode' = m
    /\ drawn' = create_map(session_state.isochrone_polygons)
    /\ UNCHANGED <<pc, current, session_state, cache>>
    /\ UNCHANGED <<RunLocals, poiVars, searchVars>>

\* lines 456-492 and 534: the whole run of a request.  It fails at the
\* fetch, fails after the fetch, or stores the band map it computed
GenerateIsochrone ==
    /\ pc = "idle"
    /\ Elapse
    /\ \E sel \in Selections \ {<<>>} :
        LET d == RADIUS_BY_TIME[max_time(sel)][mode]
            key == CacheKey(current.lat, current.lon, d, mode)
            hit == CacheLive(cache, key, clock)
            n == IF hit THEN cache[key].value
                 ELSE graph_from_point(current.lat, current.lon, d, mode)
            fetched == IF hit THEN cache ELSE CacheWrite(cache, key, n, clock)
        IN  \/ /\ ~hit
               /\ UNCHANGED <<cache, session_state>>
            \/ /\ cache' = fetched
               /\ UNCHANGED session_state
            \/ /\ cache' = fetched
               /\ \E addr \in reverse_geocode(current.lat, current.lon) :
                    session_state' =
                        [session_state EXCEPT
                            !.isochrone_polygons =
                                BandMap(n, current.lat, current.lon, mode, sel),
                            !.address_info = IF addr # "" THEN addr ELSE @]
    /\ drawn' = create_map(session_state'.isochrone_polygons)
    /\ UNCHANGED <<pc, mode, current>>
    /\ UNCHANGED <<RunLocals, poiVars, searchVars>>

\* lines 495-531: the address is looked up when there is none, the largest
\* stored polygon taken, and the provider's items filtered with it
SearchPoi ==
    /\ pc = "idle"
    /\ Elapse
    /\ polygon' = largest_polygon(session_state.isochrone_polygons)
    /\ \E found \in SearchPages :
        LET st == ProcessItems(
                      [records |-> found, all_results |-> <<>>,
                       seen_titles |-> {}], 1, Len(found), polygon')
        IN  /\ handed' = found
            /\ records' = st.records
            /\ all_results' = st.all_results
            /\ seen_titles' = st.seen_titles
            /\ \E addr \in IF session_state.address_info = ""
                           THEN reverse_geocode(current.lat, current.lon)
                           ELSE {session_state.address_info} :
                session_state' =
                    [session_state EXCEPT
                        !.address_info = addr,
                        !.poi_data = [i \in DOMAIN st.all_results |->
                                         st.records[st.all_results[i]]]]
    /\ page' = NumPages
    /\ pc' = "searched"
    /\ UNCHANGED <<mode, current, cache, drawn, point, inside>>
    /\ UNCHANGED <<RunLocals, searchVars>>

\* line 534: the map is drawn with the band map and the POIs found
ShowPoi ==
    /\ pc = "searched"
    /\ drawn' = create_map(session_state.isochrone_polygons)
    /\ pc' = "idle"
    /\ UNCHANGED <<mode, current, session_state, cache>>
    /\ UNCHANGED <<RunLocals, poiVars, cacheVars, searchVars>>

NextSession ==
    \/ CoordinateInput
    \/ MapClick
    \/ ChooseTransport
    \/ GenerateIsochrone
    \/ SearchPoi
    \/ ShowPoi

SpecSession == Init /\ [][NextSession]_vars

----------------------------------------------------------------------------
(* The networks the reachability and hull claims are checked on: up to      *)
(* MaxEdges edges (parallel edges included) between the nodes, under three  *)
(* layouts of the node coordinates.                                         *)

AllEdges ==
    {[u |-> a, v |-> b, length |-> l] :
        a \in NodeIds, b \in NodeIds, l \in Lengths} \
    {[u |-> a, v |-> a, length |-> l] : a \in NodeIds, l \in Lengths}

EdgeSets == {E \in SUBSET AllEdges : Cardinality(E) <= MaxEdges}

Layouts ==
    { [n \in NodeIds |-> <<n - 1, (n - 1) * (n - 2)>>],   \* general position
      [n \in NodeIds |-> <<n - 1, 0>>],                   \* collinear
      [n \in NodeIds |-> <<IF n = 1 THEN 0 ELSE 1, 0>>] } \* shared coordinates

\* the nearest node is 2 in the first and the last layout, 3 in the second
Sources == {[lat |-> 0, lon |-> 2]}

InitIso ==
    /\ G \in {Network(c, E) : c \in Layouts, E \in EdgeSets}
    /\ mode \in NetworkTypes
    /\ current \in Sources
    /\ trip_time_seconds = 0
    /\ subgraph = {}
    /\ isochrone = None
    /\ pc = "fetched"
    /\ PoiIdle
    /\ AppIdle
    /\ CacheIdle
    /\ SearchIdle

AnnotateIso ==
    /\ pc = "fetched"
    /\ G' = add_travel_time(G, mode)
    /\ pc' = "annotated"
    /\ UNCHANGED <<mode, current, trip_time_seconds, subgraph, isochrone>>
    /\ UNCHANGED <<poiVars, appVars, cache, cacheVars, searchVars>>

CalculateIso ==
    /\ pc = "annotated"
    /\ \E b \in Budgets :
        LET r == calculate_isochrone(G, current.lat, current.lon, b)
        IN  /\ trip_time_seconds' = b
            /\ subgraph' = r.subgraph
            /\ isochrone' = r.result
    /\ pc' = "computed"
    /\ UNCHANGED <<G, mode, current>>
    /\ UNCHANGED <<poiVars, appVars, cache, cacheVars, searchVars>>

NextIso == AnnotateIso \/ CalculateIso

SpecIso == InitIso /\ [][NextIso]_vars

----------------------------------------------------------------------------
(* The networks the annotation claim is checked on: up to MaxEdges edges    *)
(* between two nodes, parallel edges included, of the lengths above, of the *)
(* provider's 375 m and of 1000 m.                                          *)

AnnotateLengths == Lengths \cup {375, 1000}

AnnotateEdges ==
    {[u |-> a, v |-> b, length |-> l] :
        a \in {1, 2}, b \in {1, 2}, l \in AnnotateLengths} \
    {[u |-> a, v |-> a, length |-> l] : a \in {1, 2}, l \in AnnotateLengths}

InitAnnotate ==
    /\ G \in {Network([n \in {1, 2} |-> <<n - 1, 0>>], E) :
                E \in {F \in SUBSET AnnotateEdges : Cardinality(F) <= MaxEdges}}
    /\ mode \in NetworkTypes
    /\ current = DefaultPoint
    /\ trip_time_seconds = 0
    /\ subgraph = {}
    /\ isochrone = None
    /\ pc = "fetched"
    /\ PoiIdle
    /\ AppIdle
    /\ CacheIdle
    /\ SearchIdle

NextAnnotate == AnnotateIso

SpecAnnotate == InitAnnotate /\ [][NextAnnotate]_vars

----------------------------------------------------------------------------
(* Reference definitions for the reachability claims *)

Center == center_node(G, current.lat, current.lon)

\* <<n, t>>: some path of at most k edges from s to n takes t seconds
RECURSIVE PathTimes(_, _, _)
PathTimes(g, s, k) ==
    IF k = 0 THEN {<<s, 0>>}
    ELSE LET P == PathTimes(g, s, k - 1)
         IN  P \cup {<<x[1].v, x[2][2] + g.travel_time[x[1]]>> :
                        x \in {y \in g.edges \X P : y[1].u = y[2][1]}}

AllPathTimes(g, s) == PathTimes(g, s, Cardinality(DOMAIN g.coords))

\* the nodes whose shortest travel time from s is at most b
WithinBudget(g, s, b) ==
    {n \in DOMAIN g.coords :
        \E pt \in AllPathTimes(g, s) : pt[1] = n /\ pt[2] <= b}

\* the nodes some path from s reaches at all
Connected(g, s) == {pt[1] : pt \in AllPathTimes(g, s)}

\* the nodes joined to s by a path of zero-travel-time edges
RECURSIVE ZeroTimeClosure(_, _)
ZeroTimeClosure(g, S) ==
    LET T == S \cup {e.v : e \in {d \in g.edges :
                                     d.u \in S /\ g.travel_time[d] = 0}}
    IN  IF T = S THEN S ELSE ZeroTimeClosure(g, T)

DistinctCoords(g, nodes) == {g.coords[n] : n \in nodes}

\* a closed ring (first vertex repeated as last) of at least 3 distinct vertices
IsPolygonRing(geom) ==
    /\ geom.type = "Polygon"
    /\ Len(geom.coords) >= 4
    /\ geom.coords[1] = geom.coords[Len(geom.coords)]
    /\ Cardinality(SeqRange(geom.coords)) >= 3

----------------------------------------------------------------------------
(* C1: the reachable set of calculate_isochrone is exactly the set of nodes *)
(* whose shortest cumulative travel time from the nearest node is at most   *)
(* the budget, and the nearest node is always in it.                        *)
C1_ReachableSetExact ==
    pc = "computed" =>
        /\ subgraph = WithinBudget(G, Center, trip_time_seconds)
        /\ Center \in subgraph

\* a node whose direct edge from the nearest node exceeds the budget is
\* reached over a shorter path of two edges
C1_Witness ==
    /\ pc = "computed"
    /\ \E n \in subgraph \ {Center} :
          /\ \E e \in G.edges : e.u = Center /\ e.v = n
          /\ \A e \in G.edges : e.u = Center /\ e.v = n =>
                G.travel_time[e] > trip_time_seconds

(* C2: monotonicity: on the same annotated network and source, the          *)
(* reachable set of a smaller budget is a subset of that of a larger one.   *)
C2_Monotone ==
    pc = "computed" =>
        \A t \in Budgets :
            /\ t < trip_time_seconds =>
                  ego_graph(G, Center, t) \subseteq subgraph
            /\ t > trip_time_seconds =>
                  subgraph \subseteq ego_graph(G, Center, t)

\* a smaller budget reaches strictly fewer nodes, a larger one strictly more
C2_Witness ==
    /\ pc = "computed"
    /\ \E t \in Budgets :
          t < trip_time_seconds /\ ego_graph(G, Center, t) # subgraph
    /\ \E t \in Budgets :
          t > trip_time_seconds /\ ego_graph(G, Center, t) # subgraph

(* C3: insufficiency: with fewer than 3 reachable nodes calculate_isochrone *)
(* returns None.                                                            *)
C3_Insufficient ==
    pc = "computed" /\ Cardinality(subgraph) < 3 => isochrone = None

\* two nodes are reachable and the result is absent
C3_Witness ==
    /\ pc = "computed"
    /\ Cardinality(subgraph) = 2
    /\ isochrone = None

(* C4, as claimed: a budget of 0 yields the reachable set {nearest node}    *)
(* and an absent polygon, in every network.                                 *)
C4_ZeroBudgetSingleton ==
    pc = "computed" /\ trip_time_seconds = 0 =>
        subgraph = {Center} /\ isochrone = None

(* C4, amended: a budget of 0 yields the nodes joined to the nearest node   *)
(* by zero-travel-time edges; when no such edge leaves the nearest node the *)
(* set is {nearest node} and the polygon is absent.                         *)
C4_ZeroBudgetClosure ==
    pc = "computed" /\ trip_time_seconds = 0 =>
        /\ subgraph = ZeroTimeClosure(G, {Center})
        /\ (\A e \in G.edges : e.u = Center => G.travel_time[e] > 0) =>
              subgraph = {Center} /\ isochrone = None

\* budget 0 at a nearest node that has edges, all of them of positive time
C4_Witness ==
    /\ pc = "computed"
    /\ trip_time_seconds = 0
    /\ \E e \in G.edges : e.u = Center
    /\ \A e \in G.edges : e.u = Center => G.travel_time[e] > 0
    /\ subgraph = {Center}
    /\ isochrone = None

(* C5, as claimed: the result is absent or a closed polygon ring of at      *)
(* least 3 distinct vertices, and it is absent whenever the reachable nodes *)
(* have fewer than 3 distinct coordinates.                                  *)
C5_AbsentOrPolygon ==
    pc = "computed" =>
        /\ isochrone = None \/ IsPolygonRing(isochrone)
        /\ Cardinality(DistinctCoords(G, subgraph)) < 3 => isochrone = None

----------------------------------------------------------------------------
(* Reference definitions for the filter claims *)

AbsInt(n) == IF n < 0 THEN -n ELSE n

\* twice the areas of the triangles p makes with the edges of a ring
EdgeAreas(ring, p) ==
    [i \in 1..(Len(ring) - 1) |-> AbsInt(Cross(p, ring[i], ring[i + 1]))]

RECURSIVE SumSeq(_)
SumSeq(q) == IF Len(q) = 0 THEN 0 ELSE q[1] + SumSeq(Tail(q))

\* twice the area of a ring (the shoelace formula)
TwiceArea(ring) ==
    AbsInt(SumSeq([i \in 1..(Len(ring) - 1) |->
                      ring[i][1] * ring[i + 1][2] - ring[i + 1][1] * ring[i][2]]))

\* p is in the closed convex region of the ring: the triangles tile it
InOrOn(ring, p) == SumSeq(EdgeAreas(ring, p)) = TwiceArea(ring)

OnBoundary(ring, p) ==
    \E i \in 1..(Len(ring) - 1) : OnSegment(ring[i], ring[i + 1], p)

StrictlyInside(ring, p) == InOrOn(ring, p) /\ ~OnBoundary(ring, p)

(* C6: is_point_in_polygon is true for every point when the polygon is      *)
(* absent; for a polygon it is true exactly when (lon, lat) lies strictly   *)
(* inside, so a point on the boundary is rejected.                          *)
C6_StrictContainment ==
    pc = "checked" =>
        /\ polygon = None => inside
        /\ polygon.type = "Polygon" =>
              /\ inside <=> StrictlyInside(polygon.coords, <<point.lon, point.lat>>)
              /\ OnBoundary(polygon.coords, <<point.lon, point.lat>>) => ~inside

\* a hull vertex is rejected
C6_Witness ==
    /\ pc = "checked"
    /\ polygon.type = "Polygon"
    /\ <<point.lon, point.lat>> \in SeqRange(polygon.coords)
    /\ ~inside

(* C7, as claimed: the filtering step mutates no input record, and with an  *)
(* absent polygon search_poi_with_location returns every item the provider  *)
(* handed to it, unchanged and with none dropped.                           *)
C7_PureFilter ==
    pc = "returned" =>
        /\ records = handed
        /\ polygon = None => ReturnedList = handed

----------------------------------------------------------------------------
(* Claims about the isochrone request, checked under Spec *)

IsDescending(q) == \A i, j \in DOMAIN q : i < j => q[i] > q[j]

(* C8, as claimed: the band map stored in session state yields its bands    *)
(* from the largest time budget to the smallest when iterated, and          *)
(* create_map draws the polygons largest first.                             *)
C8_LargestFirst ==
    /\ IsDescending(Keys(session_state.isochrone_polygons))
    /\ IsDescending(drawn)

\* the run of a request has left the try block before its loop was done
RequestFailed ==
    /\ pc = "render"
    /\ selected_times # <<>>
    /\ band <= Len(selected_times)

\* every entry of the cache is the network the provider returned for its key
CacheSound ==
    \A key \in DOMAIN cache :
        cache[key].value = graph_from_point(key[1], key[2], key[3], key[4])

(* C10: when a stage of an isochrone request fails (the fetch, the          *)
(* annotation or the computation of a band) the failure is reported, the    *)
(* stored band map is exactly the one stored before the request, and every  *)
(* cache entry is still the network that was fetched for its key.           *)
C10_FailureLeavesState ==
    RequestFailed =>
        /\ message = "error"
        /\ session_state.isochrone_polygons = band_map_before
        /\ CacheSound

\* a band failed after an earlier band of the same request had been
\* computed, with another band map stored and a network cached
C10_Witness ==
    /\ RequestFailed
    /\ polygons # <<>>
    /\ band_map_before # <<>>
    /\ polygons # band_map_before
    /\ cache # <<>>

----------------------------------------------------------------------------
(* get_graph called by concurrent session threads.  st.cache_data reads the *)
(* entry; on a miss it takes the key's compute lock, reads again, and only  *)
(* then calls the function and writes the result.  An entry lives TTL       *)
(* seconds from its write; a call that raises writes nothing.               *)

TickSeconds == TTL \div 2

InitCache ==
    /\ CacheIdle
    /\ SearchIdle
    /\ AppIdle
    /\ PoiIdle
    /\ G = NoNetwork
    /\ mode = "walk"
    /\ current = DefaultPoint
    /\ trip_time_seconds = 0
    /\ subgraph = {}
    /\ isochrone = None
    /\ pc = "idle"

Tick ==
    /\ clock < MaxTicks * TickSeconds
    /\ clock' = clock + TickSeconds
    /\ UNCHANGED <<sessions, compute_value_lock, calls, cache>>
    /\ UNCHANGED <<isoVars, pc, poiVars, appVars, searchVars>>

\* the first read, outside the lock: a hit returns the entry
ReadResult(t) ==
    /\ sessions[t].pc = "idle"
    /\ \E key \in RequestKeys :
        sessions' = [sessions EXCEPT ![t] =
                        IF CacheLive(cache, key, clock)
                        THEN [pc |-> "idle", key |-> NoKey]
                        ELSE [pc |-> "miss", key |-> key]]
    /\ UNCHANGED <<clock, compute_value_lock, calls, cache>>
    /\ UNCHANGED <<isoVars, pc, poiVars, appVars, searchVars>>

\* with cache.compute_value_lock(value_key)
AcquireLock(t) ==
    /\ sessions[t].pc = "miss"
    /\ compute_value_lock[sessions[t].key] = Unlocked
    /\ compute_value_lock' = [compute_value_lock EXCEPT ![sessions[t].key] = t]
    /\ sessions' = [sessions EXCEPT ![t].pc = "locked"]
    /\ UNCHANGED <<clock, calls, cache>>
    /\ UNCHANGED <<isoVars, pc, poiVars, appVars, searchVars>>

RereadHitMutSkip(c, key, now) == FALSE

\* the second read, under the lock
RereadHit(c, key, now) == CacheLive(c, key, now)

LastTwo(q) == IF Len(q) > 2 THEN Tail(q) ELSE q

\* under the lock: a hit returns the entry another session wrote, a miss
\* calls the provider
RereadResult(t) ==
    /\ sessions[t].pc = "locked"
    /\ LET key == sessions[t].key
       IN  IF RereadHit(cache, key, clock)
           THEN /\ sessions' = [sessions EXCEPT
                                    ![t] = [pc |-> "idle", key |-> NoKey]]
                /\ compute_value_lock' =
                       [compute_value_lock EXCEPT ![key] = Unlocked]
                /\ UNCHANGED calls
           ELSE /\ sessions' = [sessions EXCEPT ![t].pc = "computing"]
                /\ calls' = [calls EXCEPT ![key] =
                                LastTwo(Append(@, [at |-> clock,
                                                   outcome |-> "running"]))]
                /\ UNCHANGED compute_value_lock
    /\ UNCHANGED <<clock, cache>>
    /\ UNCHANGED <<isoVars, pc, poiVars, appVars, searchVars>>

\* the provider answers: the network is written and the lock released
ProviderReturn(t) ==
    /\ sessions[t].pc = "computing"
    /\ LET key == sessions[t].key
       IN  /\ cache' = CacheWrite(cache, key,
                           graph_from_point(key[1], key[2], key[3], key[4]),
                           clock)
           /\ calls' = [calls EXCEPT ![key][Len(calls[key])].outcome = "stored"]
           /\ compute_value_lock' =
                  [compute_value_lock EXCEPT ![key] = Unlocked]
    /\ sessions' = [sessions EXCEPT ![t] = [pc |-> "idle", key |-> NoKey]]
    /\ UNCHANGED clock
    /\ UNCHANGED <<isoVars, pc, poiVars, appVars, searchVars>>

\* the provider raises: nothing is written and the lock released
ProviderRaise(t) ==
    /\ sessions[t].pc = "computing"
    /\ LET key == sessions[t].key
       IN  /\ calls' = [calls EXCEPT ![key][Len(calls[key])].outcome = "raised"]
           /\ compute_value_lock' =
                  [compute_value_lock EXCEPT ![key] = Unlocked]
    /\ sessions' = [sessions EXCEPT ![t] = [pc |-> "idle", key |-> NoKey]]
    /\ UNCHANGED <<clock, cache>>
    /\ UNCHANGED <<isoVars, pc, poiVars, appVars, searchVars>>

NextCache ==
    \/ Tick
    \/ \E t \in Sessions : ReadResult(t)
    \/ \E t \in Sessions : AcquireLock(t)
    \/ \E t \in Sessions : RereadResult(t)
    \/ \E t \in Sessions : ProviderReturn(t)
    \/ \E t \in Sessions : ProviderRaise(t)

SpecCache == InitCache /\ [][NextCache]_vars

----------------------------------------------------------------------------
(* Claims about the fetch cache, checked under SpecCache *)

Computing(key) ==
    {t \in Sessions : sessions[t].pc = "computing" /\ sessions[t].key = key}

(* C9, as claimed: the provider is called at most once per key within one   *)
(* time-to-live window of 3600 seconds: two calls for one key are never     *)
(* less than TTL apart.                                                     *)
C9_OnceInWindow ==
    \A key \in RequestKeys :
        Len(calls[key]) = 2 => calls[key][2].at - calls[key][1].at >= TTL

(* C9, amended: the provider is never called for a key while an entry of    *)
(* that key is live or another call for it is in flight, and two calls for  *)
(* one key are less than TTL apart only when the earlier one raised and so  *)
(* wrote nothing.                                                           *)
C9_OnceInWindowUnlessRaised ==
    \A key \in RequestKeys :
        /\ Cardinality(Computing(key)) <= 1
        /\ Computing(key) # {} => ~CacheLive(cache, key, clock)
        /\ (Len(calls[key]) = 2
                /\ calls[key][2].at - calls[key][1].at < TTL)
              => calls[key][1].outcome = "raised"

\* a session that missed and waited for the lock finds the entry another
\* session wrote meanwhile, after an earlier call for the key had raised
\* less than TTL before
C9_Witness ==
    \E t \in Sessions :
        /\ sessions[t].pc = "locked"
        /\ CacheLive(cache, sessions[t].key, clock)
        /\ Len(calls[sessions[t].key]) = 2
        /\ calls[sessions[t].key][1].outcome = "raised"
        /\ calls[sessions[t].key][2].outcome = "stored"
        /\ calls[sessions[t].key][2].at - calls[sessions[t].key][1].at < TTL

----------------------------------------------------------------------------
(* Claims about the provider's failures, checked under SpecSearch *)

(* C11, as claimed: an answer with status 429 reaches the caller            *)
(* search_poi_with_location in a form no other failure has (another status, *)
(* an exception), and once a request has been answered 429 the caller       *)
(* issues none of the remaining page requests.                              *)
C11_ThrottleToldApart ==
    /\ IsThrottled(response) =>
          \A r \in Responses :
              (r.raised \/ r.status_code \notin {200, 429})
                  => search_naver_local(r).result # returned_items
    /\ throttled_page # 0 => page = throttled_page

----------------------------------------------------------------------------
(* Claims about the annotation, checked under SpecAnnotate *)

----------------------------------------------------------------------------
(* Claims about the stages of an isochrone request, checked under Spec *)

\* the greatest of the selected times, and the radius the table gives it
IsGreatest(t, sel) == t \in SeqRange(sel) /\ \A u \in SeqRange(sel) : u <= t

RadiusOfGreatest(sel, m) ==
    RADIUS_BY_TIME[CHOOSE t \in SeqRange(sel) : IsGreatest(t, sel)][m]

\* the stages of a whole request: one fetch, one annotation, the k bands
ExpectedStages(sel, m) ==
    <<Stage("get_graph", RadiusOfGreatest(sel, m)),
      Stage("add_travel_time", 0)>> \o
    [i \in 1..Len(sel) |-> Stage("calculate_isochrone", sel[i])]

IsPrefix(p, q) == Len(p) <= Len(q) /\ \A i \in DOMAIN p : p[i] = q[i]

RequestCompleted ==
    /\ pc = "render"
    /\ selected_times # <<>>
    /\ band > Len(selected_times)

(* C13: the stages of a request with k >= 1 selected times are, in this     *)
(* order, one fetch with the radius RADIUS_BY_TIME[largest selected         *)
(* time][mode], one annotation, and the k band computations, each against   *)
(* the annotated network of that fetch; a request that completes has run    *)
(* them all, one that fails a prefix of them.                               *)
C13_OneFetchOneAnnotation ==
    selected_times # <<>> =>
        /\ IsPrefix(trace, ExpectedStages(selected_times, mode))
        /\ RequestCompleted => trace = ExpectedStages(selected_times, mode)
        /\ pc = "band" =>
              G = add_travel_time(
                      graph_from_point(current.lat, current.lon,
                          RadiusOfGreatest(selected_times, mode), mode),
                      mode)

\* a request of two times, the smaller selected first, has completed
C13_Witness ==
    /\ RequestCompleted
    /\ Len(selected_times) = 2
    /\ selected_times[1] < selected_times[2]
    /\ Len(trace) = 4
    /\ trace[1].arg # RADIUS_BY_TIME[selected_times[1]][mode]

----------------------------------------------------------------------------
(* Claims about the session, checked under SpecSession *)

\* the band maps a request for this source and mode can store
BandMapsFor(p, m) ==
    {BandMap(graph_from_point(p.lat, p.lon, RADIUS_BY_TIME[max_time(sel)][m],
                              m),
             p.lat, p.lon, m, sel) : sel \in Selections \ {<<>>}}

(* C14, as claimed: the polygon a POI search filters with is the polygon    *)
(* of the largest time budget of the stored band map, and the band map that *)
(* search uses is one computed for the source coordinate and the transport  *)
(* mode that are selected now.                                              *)
C14_FilterPolygonCurrent ==
    pc = "searched" =>
        /\ polygon = largest_polygon(session_state.isochrone_polygons)
        /\ session_state.isochrone_polygons # <<>> =>
              session_state.isochrone_polygons \in BandMapsFor(current, mode)

====
